---- MODULE Spec2Model ----
(***************************************************************************)
(* vite-plugin-mpa: page discovery, script injection, the development      *)
(* middleware with its caches and debounced rediscovery, and the           *)
(* production resolveId/load hooks.                                        *)
(*                                                                         *)
(* Text.  A string is modelled as the sequence of its lexemes: a maximal   *)
(* run of letters and digits is one lexeme ("script", "main", "html"),     *)
(* every other character is a lexeme of its own ("<", "/", ".", "?", "$"). *)
(* Concatenation is \o, and the regular expressions of the source are      *)
(* translated lexeme by lexeme.  Letter case is kept: Lower folds it where *)
(* the source matches with the i flag.                                     *)
(***************************************************************************)
EXTENDS Integers, Sequences, FiniteSets, Bags, TLC

\* ------------------------------------------------------------------ text

Lower(a) ==
  CASE a = "BODY" -> "body"
    [] a = "Body" -> "body"
    [] a = "SCRIPT" -> "script"
    [] a = "HTML" -> "html"
    [] a = "Html" -> "html"
    [] a = "MODULE" -> "module"
    [] a = "TYPE" -> "type"
    [] a = "SRC" -> "src"
    [] a = "Main" -> "main"
    [] a = "INDEX" -> "index"
    [] a = "Index" -> "index"
    [] OTHER -> a

LowerSeq(s) == [i \in 1..Len(s) |-> Lower(s[i])]

Punct == {"<", ">", "/", "\\", "=", "\"", "'", " ", "\n", ".", "?", "$", "&", "backtick",
          "@", "*", ",", "-", "_", "|", "!", "#", ":", ";", "+", "%"}

IsAlnum(a) == a \notin Punct
IsWs(a) == a \in {" ", "\n"}
IsQuote(a) == a \in {"\"", "'"}

At(s, i) == IF i \in 1..Len(s) THEN s[i] ELSE "<none>"

StartsWith(s, p) == Len(s) >= Len(p) /\ SubSeq(s, 1, Len(p)) = p
EndsWith(s, p) == Len(s) >= Len(p) /\ SubSeq(s, Len(s) - Len(p) + 1, Len(s)) = p

RECURSIVE Concat(_)
Concat(ss) == IF ss = <<>> THEN <<>> ELSE Head(ss) \o Concat(Tail(ss))

Occurs(s, p, i) == i >= 1 /\ i + Len(p) - 1 <= Len(s) /\ SubSeq(s, i, i + Len(p) - 1) = p
CountOf(s, p) == Cardinality({i \in 1..Len(s) : Occurs(s, p, i)})

\* ------------------------------------------------------- script injection

\* String.prototype.replace with a string replacement: "$$" stands for "$",
\* "$&" for the matched text, "$" with a backtick (lexeme "backtick") and "$'"
\* for the text before and after the match; the pattern has no capture group,
\* so every other "$" is literal.
RECURSIVE GetSubstitution(_, _, _, _)
GetSubstitution(repl, matched, before, after) ==
  IF repl = <<>> THEN <<>>
  ELSE IF Head(repl) = "$" /\ Len(repl) >= 2 /\ repl[2] \in {"$", "&", "backtick", "'"}
    THEN (CASE repl[2] = "$" -> <<"$">>
            [] repl[2] = "&" -> matched
            [] repl[2] = "backtick" -> before
            [] repl[2] = "'" -> after)
         \o GetSubstitution(SubSeq(repl, 3, Len(repl)), matched, before, after)
    ELSE <<Head(repl)>> \o GetSubstitution(Tail(repl), matched, before, after)

templateFallback ==
  <<"<", "!", "doctype", " ", "html", ">", "\n",
    "<", "html", ">", "\n",
    " ", " ", "<", "head", ">", "\n",
    " ", " ", " ", " ", "<", "title", ">", "Vite", " ", "MPA", "<", "/", "title", ">", "\n",
    " ", " ", "<", "/", "head", ">", "\n",
    " ", " ", "<", "body", ">", "\n",
    " ", " ", " ", " ", "<", "div", " ", "id", "=", "\"", "app", "\"", ">", "<", "/", "div", ">", "\n",
    " ", " ", "<", "/", "body", ">", "\n",
    "<", "/", "html", ">">>

toPosix(p) == [i \in 1..Len(p) |-> IF p[i] = "\\" THEN "/" ELSE p[i]]

withTrailingSlash(base) == IF EndsWith(base, <<"/">>) THEN base ELSE base \o <<"/">>

\* buildScriptSrc without .replace(/^\//, ''): the entry keeps its leading "/"
buildScriptSrc_KeepLeadingSlash(entryPosix, isDev, base) ==
  IF ~isDev THEN entryPosix
  ELSE withTrailingSlash(IF base = <<>> THEN <<"/">> ELSE base) \o entryPosix

buildScriptSrc(entryPosix, isDev, base) ==
  IF ~isDev THEN entryPosix
  ELSE LET normalized == withTrailingSlash(IF base = <<>> THEN <<"/">> ELSE base)
       IN normalized \o (IF StartsWith(entryPosix, <<"/">>) THEN Tail(entryPosix) ELSE entryPosix)

ScriptTag(scriptSrc) ==
  <<"<", "script", " ", "type", "=", "\"", "module", "\"", " ", "src", "=", "\"">>
    \o scriptSrc \o <<"\"", ">", "<", "/", "script", ">">>

\* /<\/body>/i at position i
BodyCloseAt(html, i) ==
  /\ i >= 1 /\ i + 3 <= Len(html)
  /\ html[i] = "<" /\ html[i + 1] = "/" /\ Lower(html[i + 2]) = "body" /\ html[i + 3] = ">"

HasBodyClose(html) == \E i \in 1..Len(html) : BodyCloseAt(html, i)

FirstBodyClose(html) ==
  CHOOSE i \in 1..Len(html) : BodyCloseAt(html, i) /\ \A j \in 1..(i - 1) : ~BodyCloseAt(html, j)

NoGt(html, a, b) == \A k \in a..b : html[k] # ">"

\* <script\s+[^>]*type=["']module["'][^>]*src=["']SRC["'][^>]*>\s*</script>, flag i;
\* escapeRegExp makes SRC match as literal text.
isScriptAlreadyInjected(html, scriptSrc) ==
  LET n == Len(html)
      m == Len(scriptSrc)
  IN \E i \in 1..n :
       /\ html[i] = "<" /\ Lower(At(html, i + 1)) = "script" /\ IsWs(At(html, i + 2))
       /\ \E t \in (i + 3)..n :
            /\ NoGt(html, i + 3, t - 1)
            /\ Lower(html[t]) = "type" /\ At(html, t + 1) = "="
            /\ IsQuote(At(html, t + 2)) /\ Lower(At(html, t + 3)) = "module"
            /\ IsQuote(At(html, t + 4))
            /\ \E s \in (t + 5)..n :
                 /\ NoGt(html, t + 5, s - 1)
                 /\ Lower(html[s]) = "src" /\ At(html, s + 1) = "=" /\ IsQuote(At(html, s + 2))
                 /\ s + 2 + m <= n
                 /\ LowerSeq(SubSeq(html, s + 3, s + 2 + m)) = LowerSeq(scriptSrc)
                 /\ IsQuote(At(html, s + 3 + m))
                 /\ \E g \in (s + 4 + m)..n :
                      /\ NoGt(html, s + 4 + m, g - 1) /\ html[g] = ">"
                      /\ \E e \in (g + 1)..n :
                           /\ \A k \in (g + 1)..(e - 1) : IsWs(html[k])
                           /\ Occurs(html, <<"<", "/">>, e)
                           /\ Lower(At(html, e + 2)) = "script" /\ At(html, e + 3) = ">"

\* injectScriptTag without its append branch: html without </body> is returned as is
injectScriptTag_NoAppend(html, scriptSrc) ==
  LET scriptTag == ScriptTag(scriptSrc)
  IN IF HasBodyClose(html)
       THEN LET i == FirstBodyClose(html)
                before == SubSeq(html, 1, i - 1)
                matched == SubSeq(html, i, i + 3)
                after == SubSeq(html, i + 4, Len(html))
            IN before
                 \o GetSubstitution(scriptTag \o <<"\n", " ", " ", "<", "/", "body", ">">>,
                                    matched, before, after)
                 \o after
       ELSE html

injectScriptTag(html, scriptSrc) ==
  LET scriptTag == ScriptTag(scriptSrc)
  IN IF HasBodyClose(html)
       THEN LET i == FirstBodyClose(html)
                before == SubSeq(html, 1, i - 1)
                matched == SubSeq(html, i, i + 3)
                after == SubSeq(html, i + 4, Len(html))
            IN before
                 \o GetSubstitution(scriptTag \o <<"\n", " ", " ", "<", "/", "body", ">">>,
                                    matched, before, after)
                 \o after
       ELSE html \o <<"\n">> \o scriptTag \o <<"\n">>

\* The injection step of loadHtmlContent: inject unless already present.
injectScript(htmlRaw, scriptSrc) ==
  IF isScriptAlreadyInjected(htmlRaw, scriptSrc) THEN htmlRaw
  ELSE injectScriptTag(htmlRaw, scriptSrc)


\* ------------------------------------------------------------ file system

VARIABLES
  platform,              \* "posix" or "win32": decides path.sep
  ctx,                   \* plugin options: entryFiles, defaultTemplate, base
  fs,                    \* files: content of every candidate file, or NoFile
  pagesRef,              \* pagesRef.current, the development Page Index
  prodPages,             \* the snapshot createProdPlugin was given
  templateContentCache,  \* template path -> raw template text
  entryContentCache,     \* base|entry -> assembled HTML
  refreshTimer,          \* number of armed timeouts; refreshTimer is the handle of the last
  pending,               \* watcher events not yet delivered
  inflight,              \* bag of the requests suspended in server.transformIndexHtml
  resp,                  \* what the latest step handed to res / next / the bundler
  arg,                   \* input of the pure-function specifications
  out                    \* their output

vars == <<platform, ctx, fs, pagesRef, prodPages, templateContentCache,
          entryContentCache, refreshTimer, pending, inflight, resp, arg, out>>

\* the content of a file that does not exist
NoFile == <<"<nofile>">>

sep == IF platform = "win32" THEN "\\" ELSE "/"

\* process.cwd()
Cwd == IF platform = "win32" THEN <<"C", ":", "\\", "proj">> ELSE <<"/", "proj">>

RECURSIVE JoinWith(_, _)
JoinWith(parts, s) ==
  IF parts = <<>> THEN <<>>
  ELSE IF Len(parts) = 1 THEN parts[1]
  ELSE parts[1] \o <<s>> \o JoinWith(Tail(parts), s)

\* str.split(s): the pieces between occurrences of the one-character separator s
RECURSIVE Split(_, _)
Split(str, s) ==
  IF \A i \in 1..Len(str) : str[i] # s THEN <<str>>
  ELSE LET i == CHOOSE k \in 1..Len(str) : str[k] = s /\ \A j \in 1..(k - 1) : str[j] # s
       IN <<SubSeq(str, 1, i - 1)>> \o Split(SubSeq(str, i + 1, Len(str)), s)

\* directory and file names (lexeme sequences)
MainTs == <<"main", ".", "ts">>
MainTsx == <<"main", ".", "tsx">>
IndexHtml == <<"index", ".", "html">>
DirA == <<"a">>
DirB == <<"b">>
NodeModules == <<"node", "_", "modules">>
HiddenDir == <<".", "cache">>
DistDir == <<"dist">>
DottedDir == <<"v1", ".", "2">>
LinkDir == <<"ln">>

\* options.pages and path.resolve(process.cwd(), pagesDir)
pagesDirOpt == <<"src", "/", "pages">>
absPagesDir == Cwd \o <<sep, "src", sep, "pages">>

\* options.template, when configured
DefaultTemplateOpt == <<"src", "/", "index", ".", "html">>

\* Candidate directories below the pages root, as name sequences, with the
\* order in which readdirSync lists a directory's children.
SubDirs(d) ==
  IF d = <<>> THEN <<HiddenDir, DirA, DistDir, LinkDir, NodeModules, DottedDir>>
  ELSE IF d = <<DirA>> THEN <<DirB>>
  ELSE <<>>

IsSymlink(d) == d = <<LinkDir>>

AllDirs ==
  {<<>>, <<DirA>>, <<DirA, DirB>>, <<HiddenDir>>, <<DistDir>>, <<LinkDir>>, <<NodeModules>>,
   <<DottedDir>>}

FileNames == {MainTs, MainTsx, IndexHtml}

\* A file is named by its directory below the pages root and its base name;
\* the default template lives one level above the pages root.
DefaultFile == [dir |-> <<<<".", ".">>>>, name |-> IndexHtml]
PageFiles == [dir : AllDirs, name : FileNames]
Files == PageFiles \cup {DefaultFile}

AbsPath(f) ==
  IF f = DefaultFile THEN Cwd \o <<sep, "src", sep>> \o IndexHtml
  ELSE absPagesDir \o Concat([i \in 1..Len(f.dir) |-> <<sep>> \o f.dir[i]]) \o <<sep>> \o f.name

IsAbsolute(p) ==
  IF platform = "win32" THEN Len(p) >= 3 /\ p[2] = ":" /\ p[3] \in {"\\", "/"}
  ELSE Len(p) >= 1 /\ p[1] = "/"

\* path.resolve(p) on the paths the plugin passes: relative paths are taken
\* from the working directory, separators become the platform's.
PathResolve(p) ==
  LET native == IF platform = "win32"
                  THEN [i \in 1..Len(p) |-> IF p[i] = "/" THEN "\\" ELSE p[i]]
                  ELSE p
  IN IF IsAbsolute(p) THEN native ELSE Cwd \o <<sep>> \o native

existsSync(files, p) ==
  p # <<>> /\ \E f \in Files : AbsPath(f) = PathResolve(p) /\ files[f] # NoFile

FileOf(p) == CHOOSE f \in Files : AbsPath(f) = PathResolve(p)

\* ------------------------------------------------------------- discovery

\* readdirSync(dir, { withFileTypes: true }): the directory's entries in name order
Dirent(n, k) == [name |-> n, kind |-> k]

Listing(files, d) ==
  LET sub(n) == IF \E i \in 1..Len(SubDirs(d)) : SubDirs(d)[i] = n
                  THEN <<Dirent(n, IF IsSymlink(d \o <<n>>) THEN "symlink" ELSE "dir")>>
                  ELSE <<>>
      file(n) == IF files[[dir |-> d, name |-> n]] # NoFile THEN <<Dirent(n, "file")>> ELSE <<>>
  IN sub(HiddenDir) \o sub(DirA) \o sub(DirB) \o sub(DistDir) \o file(IndexHtml) \o sub(LinkDir)
       \o file(MainTs) \o file(MainTsx) \o sub(NodeModules) \o sub(DottedDir)

\* path.join(relDir, name)
PathJoin2(relDir, name) == IF relDir = <<>> THEN name ELSE relDir \o <<sep>> \o name

\* shouldSkip without the names it excludes: hidden directories and symbolic
\* links alone are skipped
shouldSkip_NoNoiseNames(ent) ==
  LET isHiddenDir == ent.kind = "dir" /\ Head(ent.name) = "."
  IN isHiddenDir \/ ent.kind = "symlink"

shouldSkip(ent) ==
  LET isHiddenDir == ent.kind = "dir" /\ Head(ent.name) = "."
  IN \/ ent.name = NodeModules
     \/ ent.name = <<"dist">>
     \/ ent.name = <<".", "git">>
     \/ isHiddenDir
     \/ ent.kind = "symlink"

\* walk(absDir, relDir): the loop over one directory's entries, in order
RECURSIVE walk(_, _, _, _), walkEntries(_, _, _, _, _)
\* walkEntries without .split(path.sep).join('/'): matches keep native separators
walkEntries_NativeSeparators(fsys, targets, d, relDir, entries) ==
  IF entries = <<>> THEN <<>>
  ELSE LET ent == Head(entries)
           rel == PathJoin2(relDir, ent.name)
           found == IF shouldSkip(ent) THEN <<>>
                    ELSE IF ent.kind = "dir" THEN walk(fsys, targets, d \o <<ent.name>>, rel)
                    ELSE IF ent.kind = "file" /\ ent.name \in targets THEN <<rel>>
                      ELSE <<>>
       IN found \o walkEntries(fsys, targets, d, relDir, Tail(entries))

walkEntries(fsys, targets, d, relDir, entries) ==
  IF entries = <<>> THEN <<>>
  ELSE LET ent == Head(entries)
           rel == PathJoin2(relDir, ent.name)
           found == IF shouldSkip(ent) THEN <<>>
                    ELSE IF ent.kind = "dir" THEN walk(fsys, targets, d \o <<ent.name>>, rel)
                    ELSE IF ent.kind = "file" /\ ent.name \in targets
                      THEN <<JoinWith(Split(rel, sep), "/")>>
                      ELSE <<>>
       IN found \o walkEntries(fsys, targets, d, relDir, Tail(entries))

walk(fsys, targets, d, relDir) ==
  IF d \in fsys.unreadable THEN <<>>
  ELSE walkEntries(fsys, targets, d, relDir, Listing(fsys.files, d))

\* findEntryFiles without the catch around readdirSync: the first failure ends
\* the scan and nothing is found
findEntryFiles_AbortOnError(fsys, entryFiles) ==
  IF fsys.unreadable # {} THEN <<>>
  ELSE walk(fsys, {entryFiles[i] : i \in 1..Len(entryFiles)}, <<>>, <<>>)

findEntryFiles(fsys, entryFiles) ==
  walk(fsys, {entryFiles[i] : i \in 1..Len(entryFiles)}, <<>>, <<>>)

\* path.posix.dirname of a relative path
PosixDirname(p) ==
  IF \A i \in 1..Len(p) : p[i] # "/" THEN <<".">>
  ELSE LET i == CHOOSE k \in 1..Len(p) : p[k] = "/" /\ \A j \in (k + 1)..Len(p) : p[j] # "/"
       IN SubSeq(p, 1, i - 1)

\* path.join(absPagesDir, entryDir with native separators, 'index.html'); join
\* normalises the "." segment of a root-level entry away.
ColocatedTemplatePath(entryDir) ==
  LET native == JoinWith(Split(entryDir, "/"), sep)
  IN IF entryDir = <<".">> THEN absPagesDir \o <<sep>> \o IndexHtml
     ELSE absPagesDir \o <<sep>> \o native \o <<sep>> \o IndexHtml

Page(n, e, t) == [name |-> n, entry |-> e, template |-> t]

\* Object.fromEntries(items.map(it => [it.name, it])): a repeated key keeps its
\* first position and takes the later value.
\* setting a key that keeps the value the key already has
RECURSIVE SetKey_KeepFirst(_, _)
SetKey_KeepFirst(acc, it) ==
  IF acc = <<>> THEN <<it>>
  ELSE IF Head(acc).name = it.name THEN acc
  ELSE <<Head(acc)>> \o SetKey_KeepFirst(Tail(acc), it)

RECURSIVE SetKey(_, _)
SetKey(acc, it) ==
  IF acc = <<>> THEN <<it>>
  ELSE IF Head(acc).name = it.name THEN <<it>> \o Tail(acc)
  ELSE <<Head(acc)>> \o SetKey(Tail(acc), it)

RECURSIVE fromEntries(_, _)
fromEntries(acc, items) ==
  IF items = <<>> THEN acc ELSE fromEntries(SetKey(acc, Head(items)), Tail(items))

\* resolvePagesEntry with the template priority reversed: the default template
\* wins over the colocated index.html
resolvePagesEntry_DefaultFirst(fsys, defaultTemplate, relPosix, entryDir, colocated) ==
  LET name == IF entryDir = <<".">> THEN <<"index">> ELSE entryDir
      entry == <<"/">> \o toPosix(pagesDirOpt) \o <<"/">> \o relPosix
      templatePath ==
        IF defaultTemplate # <<>> /\ existsSync(fsys.files, defaultTemplate) THEN defaultTemplate
        ELSE IF existsSync(fsys.files, colocated) THEN colocated
          ELSE <<>>
  IN Page(name, entry, templatePath)

\* the body of matches.map(...) for one match
resolvePagesEntry(fsys, defaultTemplate, relPosix, entryDir, colocated) ==
  LET name == IF entryDir = <<".">> THEN <<"index">> ELSE entryDir
      entry == <<"/">> \o toPosix(pagesDirOpt) \o <<"/">> \o relPosix
      templatePath ==
        IF existsSync(fsys.files, colocated) THEN colocated
        ELSE IF defaultTemplate # <<>> /\ existsSync(fsys.files, defaultTemplate)
          THEN defaultTemplate
          ELSE <<>>
  IN Page(name, entry, templatePath)

resolvePagesItem(fsys, defaultTemplate, relPosix) ==
  resolvePagesEntry(fsys, defaultTemplate, relPosix, PosixDirname(relPosix),
                    ColocatedTemplatePath(PosixDirname(relPosix)))

RECURSIVE resolvePagesItems(_, _, _)
resolvePagesItems(fsys, defaultTemplate, matches) ==
  IF matches = <<>> THEN <<>>
  ELSE <<resolvePagesItem(fsys, defaultTemplate, Head(matches))>>
         \o resolvePagesItems(fsys, defaultTemplate, Tail(matches))

resolvePages(fsys, entryFiles, defaultTemplate) ==
  fromEntries(<<>>, resolvePagesItems(fsys, defaultTemplate, findEntryFiles(fsys, entryFiles)))

PageNames(pages) == {pages[i].name : i \in 1..Len(pages)}
HasPage(pages, n) == n \in PageNames(pages)
PageOf(pages, n) == pages[CHOOSE i \in 1..Len(pages) : pages[i].name = n]


\* ------------------------------------------------------------- rendering

EmptyMap == [k \in {} |-> <<>>]
MapGet(m, k) == IF k \in DOMAIN m THEN m[k] ELSE <<>>
MapSet(m, k, v) == [x \in (DOMAIN m) \cup {k} |-> IF x = k THEN v ELSE m[x]]

\* readTemplateWithCache: the text, the template cache afterwards, whether the
\* file was read from disk, and whether onError was called.
readTemplateWithCache(fsys, tcache, templatePath) ==
  IF templatePath = <<>>
    THEN [html |-> templateFallback, tcache |-> tcache, read |-> FALSE, error |-> FALSE]
  ELSE IF MapGet(tcache, templatePath) # <<>>
    THEN [html |-> MapGet(tcache, templatePath), tcache |-> tcache, read |-> FALSE, error |-> FALSE]
  ELSE LET exists == existsSync(fsys.files, templatePath)
           throws == exists /\ FileOf(templatePath) \in fsys.locked
           text == IF exists /\ ~throws THEN fsys.files[FileOf(templatePath)] ELSE <<>>
           html == IF text # <<>> THEN text ELSE templateFallback
       IN [html |-> html, tcache |-> MapSet(tcache, templatePath, html),
           read |-> exists, error |-> throws]

\* the cache key without the base: the entry path in development too
CacheKey_EntryOnly(entryPosix, isDev, base) == entryPosix

CacheKey(entryPosix, isDev, base) ==
  IF isDev THEN withTrailingSlash(IF base = <<>> THEN <<"/">> ELSE base) \o <<"|">> \o entryPosix
  ELSE entryPosix

\* loadHtmlContent: the HTML and both caches afterwards.
loadHtmlContent(fsys, tcache, ecache, page, isDev, base) ==
  LET entryPosix == toPosix(page.entry)
      scriptSrc == buildScriptSrc(entryPosix, isDev, base)
      cacheKey == CacheKey(entryPosix, isDev, base)
      cached == IF isDev THEN MapGet(ecache, cacheKey) ELSE <<>>
  IN IF cached # <<>>
       THEN [html |-> cached, tcache |-> tcache, ecache |-> ecache,
             read |-> FALSE, error |-> FALSE, hit |-> TRUE]
     ELSE LET r == readTemplateWithCache(fsys, tcache, page.template)
              htmlFinal == IF isScriptAlreadyInjected(r.html, scriptSrc) THEN r.html
                           ELSE injectScriptTag(r.html, scriptSrc)
          IN [html |-> htmlFinal, tcache |-> r.tcache,
              ecache |-> IF isDev THEN MapSet(ecache, cacheKey, htmlFinal) ELSE ecache,
              read |-> r.read, error |-> r.error, hit |-> FALSE]

\* pages[name] on the plain object Object.fromEntries built: an own key gives
\* its page; a name Object.prototype defines gives an inherited, truthy value
\* that is no page; any other name gives undefined.
ObjectPrototypeKeys == {<<"constructor">>, <<"toString">>, <<"valueOf">>}
Lookup(pages, n) ==
  IF HasPage(pages, n) THEN "own"
  ELSE IF n \in ObjectPrototypeKeys THEN "inherited"
  ELSE "undefined"


\* --------------------------------------------------------------- requests

Includes(str, p) == \E i \in 1..(Len(str) + 1) : Occurs(str, p, i)

\* req.headers.accept is undefined, a string or an array of strings
acceptString(accept) ==
  IF accept.kind = "string" THEN accept.val[1]
  ELSE IF accept.kind = "array" THEN JoinWith(accept.val, ",")
  ELSE <<>>

\* /\.[a-z0-9]+(?:\?.*)?$/i and /\.html(?:\?.*)?$/i
HasExtension(url) ==
  \E i \in 1..Len(url) :
    /\ url[i] = "." /\ i + 1 <= Len(url) /\ IsAlnum(url[i + 1])
    /\ (i + 1 = Len(url) \/ url[i + 2] = "?")

HasHtmlExtension(url) ==
  \E i \in 1..Len(url) :
    /\ url[i] = "." /\ i + 1 <= Len(url) /\ Lower(url[i + 1]) = "html"
    /\ (i + 1 = Len(url) \/ url[i + 2] = "?")

isViteInternalOrNonHtmlAsset(url) ==
  \/ StartsWith(url, <<"/", "@", "vite", "/">>)
  \/ StartsWith(url, <<"/", "@", "id", "/">>)
  \/ (HasExtension(url) /\ ~HasHtmlExtension(url))

\* /\.html$/i
EndsWithHtml(p) == Len(p) >= 2 /\ p[Len(p) - 1] = "." /\ Lower(p[Len(p)]) = "html"

\* replace(/\/+$/, '')
RECURSIVE StripTrailingSlashes(_)
StripTrailingSlashes(p) ==
  IF p # <<>> /\ p[Len(p)] = "/" THEN StripTrailingSlashes(SubSeq(p, 1, Len(p) - 1)) ELSE p

\* parsePageMeta without .replace(/\/+$/, ''): trailing slashes stay in the path
parsePageMeta_KeepSlashes(originalUrl) ==
  LET parts == Split(originalUrl, "?")
      rawPath == parts[1]
      rawQuery == IF Len(parts) >= 2 THEN parts[2] ELSE <<>>
      pathOnly == IF rawPath = <<"/">> \/ rawPath = <<>> THEN <<"/", "index", ".", "html">>
                  ELSE IF ~EndsWithHtml(rawPath) THEN rawPath \o <<".", "html">>
                  ELSE rawPath
      url == IF rawQuery # <<>> THEN pathOnly \o <<"?">> \o rawQuery ELSE pathOnly
      noSlash == IF StartsWith(pathOnly, <<"/">>) THEN Tail(pathOnly) ELSE pathOnly
      name == IF EndsWithHtml(noSlash) THEN SubSeq(noSlash, 1, Len(noSlash) - 2) ELSE noSlash
  IN [url |-> url, name |-> name]

parsePageMeta(originalUrl) ==
  LET parts == Split(originalUrl, "?")
      rawPath == parts[1]
      rawQuery == IF Len(parts) >= 2 THEN parts[2] ELSE <<>>
      pathOnly == IF rawPath = <<"/">> \/ rawPath = <<>> THEN <<"/", "index", ".", "html">>
                  ELSE IF ~EndsWithHtml(rawPath) THEN StripTrailingSlashes(rawPath) \o <<".", "html">>
                  ELSE rawPath
      url == IF rawQuery # <<>> THEN pathOnly \o <<"?">> \o rawQuery ELSE pathOnly
      noSlash == IF StartsWith(pathOnly, <<"/">>) THEN Tail(pathOnly) ELSE pathOnly
      name == IF EndsWithHtml(noSlash) THEN SubSeq(noSlash, 1, Len(noSlash) - 2) ELSE noSlash
  IN [url |-> url, name |-> name]

\* Array.prototype.sort() without a comparator orders strings by code unit.
\* CodeRank orders the lexemes page names are made of by their first code unit
\* ("/" is 47, letters follow); no such lexeme is a proper prefix of another
\* except "a" of "admin", where the shorter string sorts first as well.
CodeRank(a) ==
  CASE a = "$" -> 1
    [] a = "&" -> 2
    [] a = "." -> 3
    [] a = "/" -> 4
    [] a = "a" -> 5
    [] a = "admin" -> 6
    [] a = "b" -> 7
    [] a = "constructor" -> 8
    [] a = "dashboard" -> 9
    [] a = "index" -> 10
    [] a = "ln" -> 11
    [] OTHER -> 12

RECURSIVE StrLess(_, _)
StrLess(x, y) ==
  IF y = <<>> THEN FALSE
  ELSE IF x = <<>> THEN TRUE
  ELSE IF Head(x) # Head(y) THEN CodeRank(Head(x)) < CodeRank(Head(y))
  ELSE StrLess(Tail(x), Tail(y))

RECURSIVE InsertSorted(_, _)
InsertSorted(sorted, x) ==
  IF sorted = <<>> THEN <<x>>
  ELSE IF StrLess(x, Head(sorted)) THEN <<x>> \o sorted
  ELSE <<Head(sorted)>> \o InsertSorted(Tail(sorted), x)

RECURSIVE Sort(_)
Sort(names) == IF names = <<>> THEN <<>> ELSE InsertSorted(Sort(Tail(names)), Head(names))

\* Object.keys(pages)
ObjectKeys(pages) == [i \in 1..Len(pages) |-> pages[i].name]

PageLink(n) ==
  <<"<", "li", ">", "<", "a", " ", "href", "=", "\"", "/">> \o n \o <<".", "html", "\"", ">">>
    \o n \o <<"<", "/", "a", ">", "<", "/", "li", ">">>

NoPagesItem ==
  <<"<", "li", ">", "<", "em", ">", "No", " ", "pages", " ", "discovered",
    "<", "/", "em", ">", "<", "/", "li", ">">>

NotFoundHead ==
  <<"<", "!", "doctype", " ", "html", ">", "\n", "<", "body", ">", "\n",
    "<", "h1", ">", "404", " ", "-", " ", "Page", " ", "Not", " ", "Found", "<", "/", "h1", ">", "\n",
    "<", "ul", ">", "\n">>

NotFoundTail == <<"\n", "<", "/", "ul", ">", "\n", "<", "/", "body", ">">>

render404(pages) ==
  LET keys == Sort(ObjectKeys(pages))
      links == JoinWith([i \in 1..Len(keys) |-> PageLink(keys[i])], "\n")
  IN NotFoundHead \o (IF links # <<>> THEN links ELSE NoPagesItem) \o NotFoundTail


\* ------------------------------------------------------- plugin creation

\* template texts the specifications put on disk
TplA == <<"<", "body", ">", "A", "<", "/", "body", ">">>
TplB == <<"<", "body", ">", "B", "<", "/", "BODY", ">">>
TplD == <<"<", "html", ">", "D", "<", "/", "html", ">">>
EntryText == <<"js">>

NoResp == [kind |-> "none"]

Fs(files) == [files |-> files, unreadable |-> {}, locked |-> {}]

\* VitePluginMpa: one discovery pass; the development plugin gets the mutable
\* reference, the production plugin the snapshot.
PluginCreated(cmd) ==
  /\ pagesRef = resolvePages(fs, ctx.entryFiles, ctx.defaultTemplate)
  /\ prodPages = pagesRef
  /\ templateContentCache = EmptyMap
  /\ entryContentCache = EmptyMap
  /\ pending = {}
  /\ inflight = EmptyBag
  /\ resp = NoResp
  /\ arg = <<>>
  /\ out = <<>>
  \* configureServer schedules the first refresh
  /\ refreshTimer = IF cmd = "serve" THEN 1 ELSE 0

\* ------------------------------------------------------ production plugin

\* rollupOptions.input
\* the input map with the bare page name as value
ProdInput_BareNames(pages) ==
  fromEntries(<<>>, [i \in 1..Len(pages) |-> [name |-> pages[i].name, value |-> pages[i].name]])

ProdInput(pages) ==
  fromEntries(<<>>, [i \in 1..Len(pages) |->
                      [name |-> pages[i].name, value |-> pages[i].name \o <<".", "html">>]])

ProdFrame == UNCHANGED <<platform, ctx, fs, pagesRef, prodPages, entryContentCache,
                         refreshTimer, pending, inflight, arg, out>>

ProdConfig ==
  /\ ctx.command = "build"
  /\ resp' = [kind |-> "config", input |-> ProdInput(prodPages)]
  /\ UNCHANGED templateContentCache
  /\ ProdFrame

ProdResolveId(id) ==
  /\ ctx.command = "build"
  /\ resp' = [kind |-> "resolveId", id |-> id, claimed |-> EndsWith(id, <<".", "html">>)]
  /\ UNCHANGED templateContentCache
  /\ ProdFrame

ProdLoad(id) ==
  /\ ctx.command = "build"
  /\ IF ~EndsWith(id, <<".", "html">>)
       THEN /\ resp' = [kind |-> "load", id |-> id, result |-> "null", html |-> <<>>, reported |-> FALSE]
            /\ UNCHANGED templateContentCache
     ELSE LET pageName == SubSeq(id, 1, Len(id) - 2)
              k == Lookup(prodPages, pageName)
          IN IF k = "undefined"
               THEN /\ resp' = [kind |-> "load", id |-> id, result |-> "null", html |-> <<>>, reported |-> FALSE]
                    /\ UNCHANGED templateContentCache
             ELSE IF k = "inherited"
               \* toPosix(page.entry) with page.entry undefined: TypeError
               THEN /\ resp' = [kind |-> "load", id |-> id, result |-> "throw", html |-> <<>>, reported |-> FALSE]
                    /\ UNCHANGED templateContentCache
             ELSE LET r == loadHtmlContent(fs, templateContentCache, entryContentCache,
                                           PageOf(prodPages, pageName), FALSE, <<"/">>)
                  \* r.error: the read failed and this.error, the callback, was called
                  IN /\ resp' = [kind |-> "load", id |-> id, result |-> "html", html |-> r.html,
                                 reported |-> r.error]
                     /\ templateContentCache' = r.tcache
  /\ ProdFrame


\* ----------------------------------------------------- development plugin

\* server.transformIndexHtml(url, html) belongs to the dev server, not to the
\* plugin; here it appends a comment that carries the url it was given.
transformIndexHtml(url, html) == html \o <<"<", "!", "-", "-">> \o url \o <<"-", "-", ">">>

MaxInflight == 1
MaxPending == 1

Req(m, a, u) == [method |-> m, accept |-> a, url |-> u]

DevFrame == UNCHANGED <<platform, ctx, fs, prodPages, arg, out>>

\* server.middlewares.use(async (req, res, next) => ...) up to the await
DevRequest(req) ==
  /\ ctx.command = "serve"
  /\ LET method == IF req.method = "" THEN "GET" ELSE req.method
         urlRaw == req.url
         isHtml == \/ Includes(acceptString(req.accept), <<"text", "/", "html">>)
                   \/ Includes(acceptString(req.accept), <<"*", "/", "*">>)
         meta == parsePageMeta(urlRaw)
         base == IF ctx.base = <<>> THEN <<"/">> ELSE ctx.base
     IN IF (method # "GET" /\ method # "HEAD") \/ isViteInternalOrNonHtmlAsset(urlRaw) \/ ~isHtml
          THEN /\ resp' = [kind |-> "next", req |-> req]
               /\ UNCHANGED <<templateContentCache, entryContentCache, inflight>>
        ELSE IF Lookup(pagesRef, meta.name) = "undefined"
          THEN /\ resp' = [kind |-> "404", req |-> req, meta |-> meta, body |-> render404(pagesRef)]
               /\ UNCHANGED <<templateContentCache, entryContentCache, inflight>>
        ELSE IF Lookup(pagesRef, meta.name) = "inherited"
          \* toPosix(page.entry) with page.entry undefined: the async handler rejects
          THEN /\ resp' = [kind |-> "throw", req |-> req, meta |-> meta]
               /\ UNCHANGED <<templateContentCache, entryContentCache, inflight>>
        ELSE LET r == loadHtmlContent(fs, templateContentCache, entryContentCache,
                                      PageOf(pagesRef, meta.name), TRUE, base)
             IN /\ BagCardinality(inflight) < MaxInflight
                /\ templateContentCache' = r.tcache
                /\ entryContentCache' = r.ecache
                /\ inflight' = inflight (+) SetToBag({[url |-> meta.url, htmlRaw |-> r.html]})
                /\ resp' = [kind |-> "render", req |-> req, meta |-> meta, html |-> r.html,
                            read |-> r.read, hit |-> r.hit, reported |-> r.error]
  /\ UNCHANGED <<pagesRef, refreshTimer, pending>>
  /\ DevFrame

\* the continuation storing the HTML it rendered before the await
TransformDone_Recache(r) ==
  /\ BagIn(r, inflight)
  /\ inflight' = inflight (-) SetToBag({r})
  /\ entryContentCache' = MapSet(entryContentCache, r.url, r.htmlRaw)
  /\ resp' = [kind |-> "200", url |-> r.url, body |-> transformIndexHtml(r.url, r.htmlRaw)]
  /\ UNCHANGED <<pagesRef, refreshTimer, pending, templateContentCache>>
  /\ DevFrame

\* the continuation writing the rendered HTML instead of the transform's result
TransformDone_RawBody(r) ==
  /\ BagIn(r, inflight)
  /\ inflight' = inflight (-) SetToBag({r})
  /\ resp' = [kind |-> "200", url |-> r.url, body |-> r.htmlRaw]
  /\ UNCHANGED <<pagesRef, refreshTimer, pending, templateContentCache, entryContentCache>>
  /\ DevFrame

\* the continuation after await server.transformIndexHtml(url, htmlRaw)
TransformDone(r) ==
  /\ BagIn(r, inflight)
  /\ inflight' = inflight (-) SetToBag({r})
  /\ resp' = [kind |-> "200", url |-> r.url, body |-> transformIndexHtml(r.url, r.htmlRaw)]
  /\ UNCHANGED <<pagesRef, refreshTimer, pending, templateContentCache, entryContentCache>>
  /\ DevFrame

\* path.relative(dir, file) for two absolute paths
RECURSIVE DropCommon(_, _)
DropCommon(a, b) ==
  IF a # <<>> /\ b # <<>> /\ Head(a) = Head(b) THEN DropCommon(Tail(a), Tail(b)) ELSE <<a, b>>

PathRelative(dir, file) ==
  LET rest == DropCommon(Split(dir, sep), Split(file, sep))
      ups == [i \in 1..Len(rest[1]) |-> <<".", ".">>]
  IN JoinWith(ups \o rest[2], sep)

isInsideDir(file, dir) ==
  LET rel == PathRelative(dir, file)
  IN rel # <<>> /\ ~StartsWith(rel, <<".", ".">>) /\ ~IsAbsolute(rel)

PathBasename(p) == LET parts == Split(p, sep) IN parts[Len(parts)]

\* scheduleRefreshPages without clearTimeout: every call arms one more timeout
scheduleRefreshPages_NoClear == refreshTimer' = refreshTimer + 1

\* scheduleRefreshPages: clearTimeout(refreshTimer) disarms the timeout the
\* handle names if it has not fired yet, then setTimeout arms a new one
scheduleRefreshPages ==
  LET stillArmed == IF refreshTimer > 0 THEN refreshTimer - 1 ELSE 0
  IN refreshTimer' = stillArmed + 1

\* the timer callback merging the new scan into the index it finds
TimerFire_Merge ==
  /\ ctx.command = "serve"
  /\ refreshTimer > 0
  /\ pagesRef' = fromEntries(pagesRef, resolvePages(fs, ctx.entryFiles, ctx.defaultTemplate))
  /\ refreshTimer' = refreshTimer - 1
  /\ resp' = NoResp
  /\ UNCHANGED <<pending, inflight, templateContentCache, entryContentCache>>
  /\ DevFrame

\* the timer callback when the build plugin shares the index object with the
\* dev plugin instead of holding the snapshot
TimerFire_SharedIndex ==
  /\ ctx.command = "serve"
  /\ refreshTimer > 0
  /\ pagesRef' = resolvePages(fs, ctx.entryFiles, ctx.defaultTemplate)
  /\ prodPages' = pagesRef'
  /\ refreshTimer' = refreshTimer - 1
  /\ resp' = NoResp
  /\ UNCHANGED <<pending, inflight, templateContentCache, entryContentCache>>
  /\ UNCHANGED <<platform, ctx, fs, arg, out>>

\* the callback of the timer scheduleRefreshPages set
TimerFire ==
  /\ ctx.command = "serve"
  /\ refreshTimer > 0
  /\ refreshTimer' = refreshTimer - 1
  /\ resp' = NoResp
  /\ UNCHANGED <<pending, inflight, templateContentCache, entryContentCache>>
  /\ DevFrame
  /\ pagesRef' = resolvePages(fs, ctx.entryFiles, ctx.defaultTemplate)

\* the change handler clearing the template cache only
WatcherChange_TemplateCacheOnly(ev) ==
  /\ ev \in pending /\ ev.kind = "change"
  /\ pending' = pending \ {ev}
  /\ IF EndsWith(ev.file, <<".", "html">>)
       THEN /\ templateContentCache' = EmptyMap
            /\ UNCHANGED entryContentCache
       ELSE UNCHANGED <<templateContentCache, entryContentCache>>
  /\ resp' = [kind |-> "watch", event |-> ev,
              dropped |-> (templateContentCache # EmptyMap \/ entryContentCache # EmptyMap)]
  /\ UNCHANGED <<pagesRef, refreshTimer, inflight>>
  /\ DevFrame

\* server.watcher.on('change', ...)
WatcherChange(ev) ==
  /\ ev \in pending /\ ev.kind = "change"
  /\ pending' = pending \ {ev}
  /\ IF EndsWith(ev.file, <<".", "html">>)
       THEN /\ templateContentCache' = EmptyMap
            /\ entryContentCache' = EmptyMap
       ELSE UNCHANGED <<templateContentCache, entryContentCache>>
  /\ resp' = [kind |-> "watch", event |-> ev,
              dropped |-> (templateContentCache # EmptyMap \/ entryContentCache # EmptyMap)]
  /\ UNCHANGED <<pagesRef, refreshTimer, inflight>>
  /\ DevFrame

\* onMaybeStructureChange, registered for 'add' and for 'unlink'
onMaybeStructureChange(ev) ==
  /\ ev \in pending /\ ev.kind \in {"add", "unlink"}
  /\ pending' = pending \ {ev}
  /\ LET abs == PathResolve(ev.file)
         insidePages == isInsideDir(abs, absPagesDir)
         isEntry == insidePages /\ \E i \in 1..Len(ctx.entryFiles) : ctx.entryFiles[i] = PathBasename(abs)
         isColocatedTemplate == insidePages /\ LowerSeq(PathBasename(abs)) = IndexHtml
         isDefaultTemplate == ctx.defaultTemplate # <<>> /\ PathResolve(ctx.defaultTemplate) = abs
     IN IF isEntry \/ isColocatedTemplate \/ isDefaultTemplate
          THEN scheduleRefreshPages
          ELSE UNCHANGED refreshTimer
  /\ resp' = [kind |-> "watch", event |-> ev, dropped |-> FALSE]
  /\ UNCHANGED <<pagesRef, inflight, templateContentCache, entryContentCache>>
  /\ DevFrame

\* The environment writes, creates or removes a file; the watcher will report it.
FsWrite(f, text) ==
  /\ ctx.command = "serve"
  /\ fs.files[f] # text
  /\ Cardinality(pending) < MaxPending
  /\ fs' = [fs EXCEPT !.files[f] = text]
  /\ pending' = pending \cup
       {[kind |-> IF fs.files[f] = NoFile THEN "add" ELSE IF text = NoFile THEN "unlink" ELSE "change",
         file |-> AbsPath(f)]}
  /\ resp' = NoResp
  /\ UNCHANGED <<platform, ctx, pagesRef, prodPages, templateContentCache, entryContentCache,
                 refreshTimer, inflight, arg, out>>

\* ------------------------------------------- specification: a build run

PageFile(d, n) == [dir |-> d, name |-> n]

\* Entry files that may or may not exist; the ones under a skipped directory
\* or behind the symbolic link always exist.
OptionalEntries ==
  {PageFile(<<>>, MainTs), PageFile(<<>>, MainTsx), PageFile(<<DirA, DirB>>, MainTs)}
FixedEntries ==
  {PageFile(<<NodeModules>>, MainTs), PageFile(<<HiddenDir>>, MainTs), PageFile(<<LinkDir>>, MainTs),
   PageFile(<<DistDir>>, MainTs)}

MkFiles(entries, rootTpl, nestedTpl, defaultTpl) ==
  [f \in Files |->
     IF f \in entries \cup FixedEntries THEN EntryText
     ELSE IF f = PageFile(<<>>, IndexHtml) THEN rootTpl
     ELSE IF f = PageFile(<<DirA, DirB>>, IndexHtml) THEN nestedTpl
     ELSE IF f = DefaultFile THEN defaultTpl
     ELSE NoFile]

EntryFilesOpts == {<<MainTs>>, <<MainTsx, MainTs>>}
DefaultTemplateOpts == {<<>>, DefaultTemplateOpt}

LoadIds ==
  {<<"index", ".", "html">>, <<"a", ".", "html">>, <<"a", "/", "b", ".", "html">>,
   <<"missing", ".", "html">>, <<"constructor", ".", "html">>,
   <<"a", "/", "b">>, <<"index", ".", "HTML">>}

InitBuild ==
  /\ platform \in {"posix", "win32"}
  /\ ctx \in [command : {"build"}, entryFiles : EntryFilesOpts,
              defaultTemplate : DefaultTemplateOpts, base : {<<"/">>}]
  /\ \E entries \in SUBSET OptionalEntries, rootTpl \in {NoFile, TplA},
        nestedTpl \in {NoFile, TplB}, defaultTpl \in {NoFile, TplD} :
       fs = Fs(MkFiles(entries \cup {PageFile(<<DirA>>, MainTs)}, rootTpl, nestedTpl, defaultTpl))
  /\ PluginCreated("build")

NextBuild ==
  \/ ProdConfig
  \/ \E id \in LoadIds : ProdResolveId(id)
  \/ \E id \in LoadIds : ProdLoad(id)

SpecBuild == InitBuild /\ [][NextBuild]_vars


\* --------------------------------- specification: one discovery pass

ScanEntries ==
  {PageFile(<<>>, MainTs), PageFile(<<>>, MainTsx), PageFile(<<DirA>>, MainTs),
   PageFile(<<DirA, DirB>>, MainTs)}

\* directories whose readdirSync throws
UnreadableOpts == {{}, {<<>>}, {<<DirA>>}, {<<DirA, DirB>>}}

InitScan ==
  /\ platform \in {"posix", "win32"}
  /\ ctx \in [command : {"scan"}, entryFiles : EntryFilesOpts,
              defaultTemplate : {<<>>}, base : {<<"/">>}]
  /\ \E entries \in SUBSET ScanEntries, unreadable \in UnreadableOpts :
       fs = [Fs(MkFiles(entries, NoFile, NoFile, NoFile)) EXCEPT !.unreadable = unreadable]
  /\ pagesRef = <<>>
  /\ prodPages = <<>>
  /\ templateContentCache = EmptyMap
  /\ entryContentCache = EmptyMap
  /\ refreshTimer = 0
  /\ pending = {}
  /\ inflight = EmptyBag
  /\ resp = NoResp
  /\ arg = <<>>
  /\ out = <<>>

\* const pages = resolvePages(pagesDir, entryFiles, defaultTemplate)
Scan ==
  /\ ctx.command = "scan"
  /\ resp = NoResp
  /\ pagesRef' = resolvePages(fs, ctx.entryFiles, ctx.defaultTemplate)
  /\ resp' = [kind |-> "scan"]
  /\ UNCHANGED <<platform, ctx, fs, prodPages, templateContentCache, entryContentCache,
                 refreshTimer, pending, inflight, arg, out>>

NextScan == Scan

SpecScan == InitScan /\ [][NextScan]_vars


\* ------------------------- specification: a dev server on a fixed file tree

AcceptHtml == [kind |-> "string",
               val |-> <<<<"text", "/", "html", ",", "application", "/", "xhtml", "+", "xml">>>>]
AcceptAny == [kind |-> "string", val |-> <<<<"*", "/", "*">>>>]
AcceptJson == [kind |-> "string", val |-> <<<<"application", "/", "json">>>>]
AcceptArray == [kind |-> "array", val |-> <<<<"image", "/", "png">>, <<"text", "/", "html">>>>]
AcceptNone == [kind |-> "undefined", val |-> <<>>]
Accepts == {AcceptHtml, AcceptAny, AcceptJson, AcceptArray, AcceptNone}
Methods == {"GET", "HEAD", "POST"}

UrlPaths == {<<>>, <<"/">>, <<"/", "a">>, <<"/", "a", "/", "b">>, <<"/", "missing">>}
UrlSuffixes == {<<>>, <<".", "html">>, <<".", "HTML">>}
UrlTrails == {<<>>, <<"/">>}

Urls ==
  {p \o x \o t : p \in UrlPaths, x \in UrlSuffixes, t \in UrlTrails}
    \cup {<<"/", "?", "x", "=", "1">>, <<"/", "a", "/", "b", ".", "html", "?", "x", "=", "1">>,
          <<"/", "a", "/", "/">>,
          <<"/", "constructor">>, <<"/", "@", "vite", "/", "client">>, <<"/", "@", "id", "/", "x">>,
          <<"/", "a", ".", "js">>, <<"/", "a", ".", "js", "?", "x", "=", "1">>,
          <<"/", "a", ".", "js", "?", "from", "=", "b", ".", "html">>,
          <<"/", "a", "/", "b", "?", "v", "=", "1", ".", "5">>,
          <<"/", "a", "/", "b", ".", "html", "?", "v", "=", "1", ".", "5">>,
          <<"/", "a", "/", "b", "?", "x", "=", "1", "?", "y", "=", "2">>,
          <<"/", "index">>, <<"/", "index", ".", "html">>,
          <<"/", "v1", ".", "2">>, <<"/", "v1", ".", "2", ".", "html">>}

ServeRequests ==
  {Req("GET", AcceptHtml, u) : u \in Urls}
    \cup {Req(m, a, <<"/", "a", "/", "b">>) : m \in Methods, a \in Accepts}
    \cup {Req("POST", AcceptHtml, <<"/", "missing">>), Req("GET", AcceptJson, <<"/", "missing">>)}

NoEntries == {}
RootOnly == {PageFile(<<>>, MainTs)}
AllEntries == {PageFile(<<>>, MainTs), PageFile(<<DirA>>, MainTs), PageFile(<<DirA, DirB>>, MainTs)}
\* a page directory with a dot in its name
DottedEntries == {PageFile(<<>>, MainTs), PageFile(<<DottedDir>>, MainTs)}

\* the last setup has a root template that exists and cannot be read
ServeSetups ==
  {<<NoEntries, <<"/">>, {}>>, <<RootOnly, <<"/", "sub">>, {}>>, <<AllEntries, <<"/">>, {}>>,
   <<RootOnly, <<"/">>, {PageFile(<<>>, IndexHtml)}>>, <<DottedEntries, <<"/">>, {}>>}

InitServe ==
  /\ platform = "posix"
  /\ \E setup \in ServeSetups :
       /\ ctx = [command |-> "serve", entryFiles |-> <<MainTs>>,
                 defaultTemplate |-> DefaultTemplateOpt, base |-> setup[2]]
       /\ fs = [Fs(MkFiles(setup[1], TplA, NoFile, TplD)) EXCEPT !.locked = setup[3]]
  /\ PluginCreated("serve")

NextServe ==
  \/ \E req \in ServeRequests : DevRequest(req)
  \/ \E r \in BagToSet(inflight) : TransformDone(r)
  \/ TimerFire

SpecServe == InitServe /\ [][NextServe]_vars

\* ------------------------ specification: a dev server on a changing tree

DevRequests == {Req("GET", AcceptHtml, u) : u \in {<<"/">>, <<"/", "a", "/", "b">>}}

DevWrites ==
  ({PageFile(<<>>, IndexHtml)} \X {NoFile, TplB})
    \cup ({PageFile(<<DirA, DirB>>, MainTs)} \X {NoFile, EntryText})

InitDev ==
  /\ platform = "posix"
  /\ ctx = [command |-> "serve", entryFiles |-> <<MainTs>>,
            defaultTemplate |-> DefaultTemplateOpt, base |-> <<"/">>]
  /\ fs = Fs(MkFiles({PageFile(<<>>, MainTs)}, TplA, NoFile, TplD))
  /\ PluginCreated("serve")

NextDev ==
  \/ \E req \in DevRequests : DevRequest(req)
  \/ \E r \in BagToSet(inflight) : TransformDone(r)
  \/ TimerFire
  \/ \E ev \in pending : WatcherChange(ev)
  \/ \E ev \in pending : onMaybeStructureChange(ev)
  \/ \E w \in DevWrites : FsWrite(w[1], w[2])

SpecDev == InitDev /\ [][NextDev]_vars


\* ------------- specification: renders on a dev server that is restarted

\* server.config.base as resolveConfig leaves it: it ends with "/"
RenderBases == {<<"/">>, <<"/", "sub", "/">>}

\* The dev server restarts with another base: configureServer runs again with
\* a new watcher and a new timer, while templateContentCache and
\* entryContentCache, module-level maps, live on.
ServerRestart(base) ==
  /\ ctx.command = "serve"
  /\ base # ctx.base
  /\ inflight = EmptyBag
  /\ ctx' = [ctx EXCEPT !.base = base]
  /\ pagesRef' = resolvePages(fs, ctx.entryFiles, ctx.defaultTemplate)
  /\ refreshTimer' = 1
  /\ pending' = {}
  /\ resp' = NoResp
  /\ UNCHANGED <<platform, fs, prodPages, templateContentCache, entryContentCache,
                 inflight, arg, out>>

RenderWrites == {PageFile(<<>>, IndexHtml)} \X {TplA, TplB}

InitRender ==
  /\ platform = "posix"
  /\ ctx \in [command : {"serve"}, entryFiles : {<<MainTs>>},
              defaultTemplate : {DefaultTemplateOpt}, base : RenderBases]
  /\ fs = Fs(MkFiles({PageFile(<<>>, MainTs), PageFile(<<DirA, DirB>>, MainTs)}, TplA, NoFile, TplD))
  /\ PluginCreated("serve")

NextRender ==
  \/ \E req \in DevRequests : DevRequest(req)
  \/ \E r \in BagToSet(inflight) : TransformDone(r)
  \/ \E base \in RenderBases : ServerRestart(base)
  \/ \E w \in RenderWrites : FsWrite(w[1], w[2])
  \/ \E ev \in pending : WatcherChange(ev)

SpecRender == InitRender /\ [][NextRender]_vars


\* --------------- specification: the watcher handlers on reported events

\* paths the watcher reports: entries, templates and other files, inside and
\* outside the pages root
WatchPaths ==
  {absPagesDir \o <<sep>> \o MainTs,
   absPagesDir \o <<sep>> \o DirA \o <<sep>> \o DirB \o <<sep>> \o MainTs,
   absPagesDir \o <<sep>> \o DirA \o <<sep, "util", ".", "ts">>,
   absPagesDir \o <<sep>> \o DirA \o <<sep>> \o IndexHtml,
   absPagesDir \o <<sep>> \o DirA \o <<sep, "INDEX", ".", "HTML">>,
   absPagesDir \o <<sep, ".", ".", "x", sep>> \o MainTs,
   Cwd \o <<sep, "src", sep>> \o IndexHtml,
   Cwd \o <<sep, "src", sep>> \o MainTs,
   Cwd \o <<sep, "other", sep>> \o IndexHtml}

WatchEvents == [kind : {"add", "unlink", "change"}, file : WatchPaths]

\* the watcher reports an event for a file outside the modelled tree, or for
\* one rewritten in place
WatcherEmit(ev) ==
  /\ ctx.command = "serve"
  /\ Cardinality(pending) < MaxPending
  /\ ev \notin pending
  /\ pending' = pending \cup {ev}
  /\ resp' = NoResp
  /\ UNCHANGED <<platform, ctx, fs, pagesRef, prodPages, templateContentCache, entryContentCache,
                 refreshTimer, inflight, arg, out>>

InitWatch ==
  /\ platform = "posix"
  /\ ctx \in [command : {"serve"}, entryFiles : EntryFilesOpts,
              defaultTemplate : DefaultTemplateOpts, base : {<<"/">>}]
  /\ fs = Fs(MkFiles({PageFile(<<>>, MainTs)}, TplA, NoFile, TplD))
  /\ PluginCreated("serve")

NextWatch ==
  \/ \E ev \in WatchEvents : WatcherEmit(ev)
  \/ \E ev \in pending : WatcherChange(ev)
  \/ \E ev \in pending : onMaybeStructureChange(ev)
  \/ TimerFire

SpecWatch == InitWatch /\ [][NextWatch]_vars

\* An armed timeout fires: within NextWatch the steps that lower refreshTimer
\* are exactly the TimerFire steps.
TimerDue == refreshTimer > 0 /\ refreshTimer' = refreshTimer - 1

\* setTimeout's callback runs once its delay has passed unless clearTimeout
\* disarmed it: a timeout that stays armed eventually fires.
SpecWatchLive == SpecWatch /\ WF_refreshTimer(TimerDue)


\* --------------------------------- specification: script injection alone

SrcRoot == <<"/", "src", "/", "pages", "/", "main", ".", "ts">>
SrcNested == <<"/", "src", "/", "pages", "/", "a", "/", "b", "/", "main", ".", "ts">>
SrcBased == <<"/", "sub", "/", "src", "/", "pages", "/", "main", ".", "ts">>
\* the entry of a page directory named $&
SrcDollar == <<"/", "src", "/", "pages", "/", "$", "&", "/", "main", ".", "ts">>
InjectSrcs == {SrcRoot, SrcNested, SrcBased, SrcDollar}

\* <script src="..." type="module"></script>: src before type
TagSrcFirst(scriptSrc) ==
  <<"<", "script", " ", "src", "=", "\"">> \o scriptSrc
    \o <<"\"", " ", "type", "=", "\"", "module", "\"", ">", "<", "/", "script", ">">>

\* <SCRIPT TYPE='module' SRC='...'> </SCRIPT>
TagUpper(scriptSrc) ==
  <<"<", "SCRIPT", " ", "TYPE", "=", "'", "module", "'", " ", "SRC", "=", "'">> \o scriptSrc
    \o <<"'", ">", " ", "<", "/", "SCRIPT", ">">>

HtmlHeads == {<<>>, <<"<", "body", ">">>}
HtmlMids ==
  {<<>>, <<"x">>, ScriptTag(SrcRoot), ScriptTag(SrcRoot) \o ScriptTag(SrcRoot),
   TagSrcFirst(SrcRoot), TagUpper(SrcNested)}
HtmlTails ==
  {<<>>, <<"<", "/", "body", ">">>, <<"<", "/", "BODY", ">", "<", "/", "html", ">">>,
   <<"<", "/", "body", ">", "x", "<", "/", "body", ">">>}

InjectHtmls ==
  {h \o m \o t : h \in HtmlHeads, m \in HtmlMids, t \in HtmlTails}
    \cup {templateFallback, TplA, TplB, TplD}

InitInject ==
  /\ platform = "posix"
  /\ ctx = [command |-> "none", entryFiles |-> <<MainTs>>,
            defaultTemplate |-> <<>>, base |-> <<"/">>]
  /\ fs = Fs(MkFiles({}, NoFile, NoFile, NoFile))
  /\ pagesRef = <<>>
  /\ prodPages = <<>>
  /\ templateContentCache = EmptyMap
  /\ entryContentCache = EmptyMap
  /\ refreshTimer = 0
  /\ pending = {}
  /\ inflight = EmptyBag
  /\ resp = NoResp
  /\ arg \in [html : InjectHtmls, src : InjectSrcs]
  /\ out = <<>>

\* one more application of the injection step to its own result
Inject ==
  /\ ctx.command = "none"
  /\ Len(out) < 2
  /\ out' = Append(out, injectScript(IF out = <<>> THEN arg.html ELSE out[Len(out)], arg.src))
  /\ UNCHANGED <<platform, ctx, fs, pagesRef, prodPages, templateContentCache,
                 entryContentCache, refreshTimer, pending, inflight, resp, arg>>

NextInject == Inject

SpecInject == InitInject /\ [][NextInject]_vars


\* ----------------------------- specification: the script src on its own

\* server.config.base as the dev server resolves it, and as an option leaves it
SrcBases ==
  {<<>>, <<"/">>, <<"/", "sub">>, <<"/", "sub", "/">>, <<"/", "sub", "/", "/">>,
   <<"/", "a", "/", "b">>, <<"/", "a", "/", "b", "/">>, <<"sub">>, <<"sub", "/">>}

\* page.entry as resolvePages builds it, on either platform's separators
SrcEntries ==
  {SrcRoot, SrcNested, SrcDollar,
   <<"\\", "src", "\\", "pages", "\\", "main", ".", "ts">>}

InitSrc ==
  /\ platform = "posix"
  /\ ctx = [command |-> "src", entryFiles |-> <<MainTs>>,
            defaultTemplate |-> <<>>, base |-> <<"/">>]
  /\ fs = Fs(MkFiles({}, NoFile, NoFile, NoFile))
  /\ pagesRef = <<>>
  /\ prodPages = <<>>
  /\ templateContentCache = EmptyMap
  /\ entryContentCache = EmptyMap
  /\ refreshTimer = 0
  /\ pending = {}
  /\ inflight = EmptyBag
  /\ resp = NoResp
  /\ arg \in [entry : SrcEntries, base : SrcBases, isDev : BOOLEAN]
  /\ out = <<>>

\* loadHtmlContent's first two statements: entryPosix, then scriptSrc
BuildSrc ==
  /\ ctx.command = "src"
  /\ out = <<>>
  /\ out' = <<buildScriptSrc(toPosix(arg.entry), arg.isDev, arg.base)>>
  /\ UNCHANGED <<platform, ctx, fs, pagesRef, prodPages, templateContentCache,
                 entryContentCache, refreshTimer, pending, inflight, resp, arg>>

NextSrc == BuildSrc

SpecSrc == InitSrc /\ [][NextSrc]_vars


\* ================================================================ claims

\* the input of the k-th application of the injection step
InjectInput(k) == IF k = 1 THEN arg.html ELSE out[k - 1]

\* C2: script injection is idempotent: injecting the same script source into
\* the result of an injection gives that result again.
C2_Idempotent == Len(out) = 2 => out[2] = out[1]

\* C3 as stated: whenever the text has no closing body tag, the injection
\* appends the script tag at the end and the output holds the tag exactly once.
C3_AppendsWithoutBody ==
  \A k \in 1..Len(out) :
    ~HasBodyClose(InjectInput(k)) =>
      /\ out[k] = InjectInput(k) \o <<"\n">> \o ScriptTag(arg.src) \o <<"\n">>
      /\ CountOf(out[k], ScriptTag(arg.src)) = 1

\* C3 amended: when the text has no closing body tag and no module-script tag
\* for that source that the injection check recognises, the injection appends
\* the script tag at the end and the output holds the tag exactly once.
C3_AppendsWhenAbsent ==
  \A k \in 1..Len(out) :
    (~HasBodyClose(InjectInput(k)) /\ ~isScriptAlreadyInjected(InjectInput(k), arg.src)) =>
      /\ out[k] = InjectInput(k) \o <<"\n">> \o ScriptTag(arg.src) \o <<"\n">>
      /\ CountOf(out[k], ScriptTag(arg.src)) = 1

C3_Witness ==
  /\ Len(out) >= 1
  /\ arg.html = <<"<", "body", ">", "x">>
  /\ out[1] = arg.html \o <<"\n">> \o ScriptTag(arg.src) \o <<"\n">>


\* ---- discovery and the production plugin (SpecBuild)

\* directories the scan visits, and what a page found there must be called
ScannedDirs == {<<>>, <<DirA>>, <<DirA, DirB>>}
ExpectedName(d) == IF d = <<>> THEN <<"index">> ELSE JoinWith(d, "/")
TargetsIn(d) ==
  {n \in {ctx.entryFiles[i] : i \in 1..Len(ctx.entryFiles)} : fs.files[PageFile(d, n)] # NoFile}
EntryUrl(d, n) ==
  <<"/", "src", "/", "pages">> \o Concat([i \in 1..Len(d) |-> <<"/">> \o d[i]]) \o <<"/">> \o n
DirOfPage(pg) == CHOOSE d \in ScannedDirs : ExpectedName(d) = pg.name

\* C1: a page's templatePath is the index.html of the entry's own directory
\* when that file exists, else the configured default template when it exists,
\* else empty, and then the page renders from the built-in fallback.
C1_TemplatePriority ==
  /\ \A i \in 1..Len(pagesRef) :
       LET pg == pagesRef[i]
           own == PageFile(DirOfPage(pg), IndexHtml)
       IN IF fs.files[own] # NoFile THEN pg.template = AbsPath(own)
          ELSE IF ctx.defaultTemplate # <<>> /\ fs.files[DefaultFile] # NoFile
            THEN pg.template = ctx.defaultTemplate
          ELSE pg.template = <<>>
  /\ (resp.kind = "load" /\ resp.result = "html") =>
       LET pg == PageOf(prodPages, SubSeq(resp.id, 1, Len(resp.id) - 2))
       IN pg.template = <<>> =>
            /\ Includes(resp.html, SubSeq(templateFallback, 1, 40))
            /\ Includes(resp.html, ScriptTag(pg.entry))

C1_Witness ==
  /\ ctx.defaultTemplate # <<>> /\ fs.files[DefaultFile] # NoFile
  /\ fs.files[PageFile(<<>>, IndexHtml)] # NoFile
  /\ HasPage(pagesRef, <<"index">>)
  /\ PageOf(pagesRef, <<"index">>).template = AbsPath(PageFile(<<>>, IndexHtml))
  /\ resp.kind = "load" /\ resp.result = "html"

\* C5: an entry in the pages root is the page "index", an entry in a/b is the
\* page "a/b" with forward slashes, on either platform.
C5_PageNames ==
  /\ \A d \in ScannedDirs :
       TargetsIn(d) # {} =>
         \E i \in 1..Len(pagesRef) :
           /\ pagesRef[i].name = ExpectedName(d)
           /\ pagesRef[i].entry \in {EntryUrl(d, n) : n \in TargetsIn(d)}
  /\ \A i \in 1..Len(pagesRef) :
       \E d \in ScannedDirs : TargetsIn(d) # {} /\ pagesRef[i].name = ExpectedName(d)

C5_Witness ==
  /\ platform = "win32"
  /\ HasPage(pagesRef, <<"a", "/", "b">>)
  /\ HasPage(pagesRef, <<"index">>)

\* C8: the entry-point map has exactly the page names as keys and maps each
\* name n to n followed by ".html".
C8_EntryPointMap ==
  resp.kind = "config" =>
    /\ {<<resp.input[i].name, resp.input[i].value>> : i \in 1..Len(resp.input)}
         = {<<n, n \o <<".", "html">>>> : n \in PageNames(prodPages)}
    /\ Len(resp.input) = Cardinality(PageNames(prodPages))

C8_Witness ==
  /\ resp.kind = "config"
  /\ \E i \in 1..Len(resp.input) :
       /\ resp.input[i].name = <<"a", "/", "b">>
       /\ resp.input[i].value = <<"a", "/", "b", ".", "html">>

\* C9: load of an identifier ending in .html whose stripped name is a page
\* returns that page's HTML with the script src equal to the entry path; load
\* of any other identifier returns null.
C9_ProdLoad ==
  resp.kind = "load" =>
    IF EndsWith(resp.id, <<".", "html">>)
         /\ HasPage(prodPages, SubSeq(resp.id, 1, Len(resp.id) - 2))
      THEN /\ resp.result = "html"
           /\ Includes(resp.html,
                       ScriptTag(PageOf(prodPages, SubSeq(resp.id, 1, Len(resp.id) - 2)).entry))
      ELSE resp.result = "null"


\* ---- the development middleware (SpecServe)

Intercepted == resp.kind \in {"404", "render"}
Resolved == resp.kind \in {"404", "render", "throw"}

\* the text before the first "?" and the text after it
BeforeQuery(u) ==
  IF \E i \in 1..Len(u) : u[i] = "?"
    THEN SubSeq(u, 1, (CHOOSE i \in 1..Len(u) : u[i] = "?" /\ \A j \in 1..(i - 1) : u[j] # "?") - 1)
    ELSE u

HtmlSuffixed(p) == Len(p) >= 2 /\ p[Len(p) - 1] = "." /\ p[Len(p)] \in {"html", "HTML", "Html"}

\* p without its trailing slashes: the prefix of p that ends in no slash and
\* is followed by slashes only
WithoutTrailingSlashes(p) ==
  CHOOSE r \in {SubSeq(p, 1, k) : k \in 0..Len(p)} :
    /\ (r = <<>> \/ r[Len(r)] # "/")
    /\ \A k \in (Len(r) + 1)..Len(p) : p[k] = "/"

WithoutLeadingSlash(p) == IF p # <<>> /\ p[1] = "/" THEN SubSeq(p, 2, Len(p)) ELSE p

\* C6: "/" and the empty path give page "index" and "/index.html"; a path
\* without an .html suffix loses its trailing slashes and gets .html appended;
\* a path with an .html suffix keeps it; "/a/b.html?x=1" gives page "a/b" and
\* the canonical URL "/a/b.html?x=1".
C6_ResolverMapping ==
  Resolved =>
    LET p == BeforeQuery(resp.req.url)
        canonicalPath == BeforeQuery(resp.meta.url)
    IN /\ (p = <<"/">> \/ p = <<>>) =>
            /\ resp.meta.name = <<"index">>
            /\ canonicalPath = <<"/", "index", ".", "html">>
       /\ (p # <<"/">> /\ p # <<>> /\ ~HtmlSuffixed(p)) =>
            /\ canonicalPath = WithoutTrailingSlashes(p) \o <<".", "html">>
            /\ resp.meta.name = WithoutLeadingSlash(WithoutTrailingSlashes(p))
       /\ HtmlSuffixed(p) =>
            /\ canonicalPath = p
            /\ resp.meta.name = WithoutLeadingSlash(SubSeq(p, 1, Len(p) - 2))
       /\ resp.req.url \in {<<"/", "a">>, <<"/", "a", "/">>} => resp.meta.name = <<"a">>
       /\ resp.req.url = <<"/", "a", "/", "b", ".", "html", "?", "x", "=", "1">> =>
            /\ resp.meta.name = <<"a", "/", "b">>
            /\ resp.meta.url = resp.req.url

C6_Witness ==
  /\ resp.kind = "render"
  /\ resp.req.url = <<"/", "a", "/", "b", ".", "html", "?", "x", "=", "1">>
  /\ resp.meta.name = <<"a", "/", "b">>

\* the names of a set in ascending code-unit order
RECURSIVE Ascending(_)
Ascending(S) ==
  IF S = {} THEN <<>>
  ELSE LET least == CHOOSE x \in S : \A y \in S \ {x} : StrLess(x, y)
       IN <<least>> \o Ascending(S \ {least})

\* C7: an intercepted request whose resolved page name is no key of the Page
\* Index gets status 404 and a page listing exactly the index's page names as
\* links in sorted order, or the placeholder item when there is none.
C7_NotFoundListing ==
  (Resolved /\ resp.meta.name \notin PageNames(pagesRef)) =>
    /\ resp.kind = "404"
    /\ LET names == Ascending(PageNames(pagesRef))
           items == IF names = <<>> THEN NoPagesItem
                    ELSE JoinWith([i \in 1..Len(names) |-> PageLink(names[i])], "\n")
       IN resp.body = NotFoundHead \o items \o NotFoundTail

\* the request's path names a file with an extension other than .html
PathExtension(u) ==
  LET p == BeforeQuery(u)
  IN IF Len(p) >= 2 /\ p[Len(p) - 1] = "." /\ IsAlnum(p[Len(p)]) THEN p[Len(p)] ELSE ""

CarriesNonHtmlExtension(u) == PathExtension(u) \notin {"", "html", "HTML", "Html"}

MayIntercept(req) ==
  /\ req.method \in {"GET", "HEAD"}
  /\ \/ Includes(acceptString(req.accept), <<"text", "/", "html">>)
     \/ Includes(acceptString(req.accept), <<"*", "/", "*">>)
  /\ ~StartsWith(req.url, <<"/", "@", "vite", "/">>)
  /\ ~StartsWith(req.url, <<"/", "@", "id", "/">>)
  /\ ~CarriesNonHtmlExtension(req.url)

\* C10: the middleware answers a request itself only if the method is GET or
\* HEAD, Accept includes text/html or */*, the URL has no internal prefix and
\* carries no non-.html file extension; every other request goes to next().
C10_InterceptOnlyNavigations ==
  /\ Intercepted => MayIntercept(resp.req)
  /\ (resp.kind \in {"404", "render", "throw", "next"} /\ ~MayIntercept(resp.req)) =>
       resp.kind = "next"


\* ---- cache invalidation in development (SpecDev)

CachesEmpty == templateContentCache = EmptyMap /\ entryContentCache = EmptyMap

HtmlChangeHandled(r) ==
  r.kind = "watch" /\ r.event.kind = "change" /\ EndsWith(r.event.file, <<".", "html">>)

\* what a page's template file holds on disk now, the fallback when it has none
TemplateOnDisk(page) ==
  IF page.template # <<>> /\ existsSync(fs.files, page.template)
    THEN fs.files[FileOf(page.template)]
    ELSE templateFallback

FreshHtml(page) ==
  injectScript(TemplateOnDisk(page), buildScriptSrc(toPosix(page.entry), TRUE, ctx.base))

\* C4: handling a change event for a path ending in .html leaves both caches
\* empty; nothing but a render fills them again; and a render that starts with
\* both caches empty reads the page's template file from disk and returns the
\* HTML built from its current content.
C4_ChangeEventInvalidates ==
  [][ /\ HtmlChangeHandled(resp') => CachesEmpty'
      /\ (CachesEmpty /\ resp'.kind # "render") => CachesEmpty'
      /\ (CachesEmpty /\ resp'.kind = "render") =>
           LET page == PageOf(pagesRef, resp'.meta.name)
           IN /\ ~resp'.hit
              /\ (page.template # <<>> /\ existsSync(fs.files, page.template)) => resp'.read
              /\ resp'.html = FreshHtml(page) ]_vars

\* the change event for the rewritten root template has dropped cached HTML
C4_Witness ==
  /\ HtmlChangeHandled(resp) /\ resp.dropped
  /\ CachesEmpty
  /\ fs.files[PageFile(<<>>, IndexHtml)] = TplB
  /\ HasPage(pagesRef, <<"index">>)


\* ---- template read failures

\* the page's template file cannot be read: it is gone, or reading it fails
TemplateReadFails(page) ==
  /\ page.template # <<>>
  /\ \/ ~existsSync(fs.files, page.template)
     \/ FileOf(page.template) \in fs.locked

\* C11: a render that has to read the page's template file and cannot (the
\* file is missing or unreadable) does not throw, reports the failure through
\* the error callback, and returns the built-in fallback with the script injected.
C11_ReadFailureReported ==
  [][ \A req \in DevRequests :
        LET meta == parsePageMeta(req.url)
        IN (/\ DevRequest(req)
            /\ HasPage(pagesRef, meta.name)
            /\ TemplateReadFails(PageOf(pagesRef, meta.name))
            /\ CachesEmpty) =>
             /\ resp'.kind = "render"
             /\ resp'.reported
             /\ resp'.html = injectScript(templateFallback,
                                          buildScriptSrc(toPosix(PageOf(pagesRef, meta.name).entry),
                                                         TRUE, ctx.base)) ]_vars


\* ---- the outcome of a request

\* C12: a request ends in exactly one outcome: next() with nothing written, one
\* 404 response, or one 200 response (a found page is rendered and its response
\* is written once the external transform returns); it never ends in a crash
\* or a rejected handler.
C12_OneTerminalOutcome ==
  /\ resp.kind # "throw"
  /\ resp.kind = "render" =>
       BagIn([url |-> resp.meta.url, htmlRaw |-> resp.html], inflight)


\* ---- which events schedule a rebuild (SpecWatch)

\* the path lies below the pages root (the reported paths have no .. segment)
BelowPagesRoot(p) == StartsWith(p, absPagesDir \o <<sep>>)

BaseNameOf(p) ==
  LET last == CHOOSE i \in 1..Len(p) : p[i] = sep /\ \A j \in (i + 1)..Len(p) : p[j] # sep
  IN SubSeq(p, last + 1, Len(p))

RelevantPath(p) ==
  \/ BelowPagesRoot(p) /\ BaseNameOf(p) \in {ctx.entryFiles[i] : i \in 1..Len(ctx.entryFiles)}
  \/ BelowPagesRoot(p) /\ LowerSeq(BaseNameOf(p)) = IndexHtml
  \/ ctx.defaultTemplate # <<>> /\ p = Cwd \o <<sep>> \o JoinWith(Split(ctx.defaultTemplate, "/"), sep)

\* C13: handling an add or unlink event arms the rebuild timer if and only if
\* the path is below the pages root with the base name of a target entry file,
\* or is an index.html (in any letter case) below the pages root, or is the configured default
\* template; handling a change event never touches the timer.
C13_RebuildScheduledIff ==
  [][ \A ev \in WatchEvents :
        /\ onMaybeStructureChange(ev) =>
             IF RelevantPath(ev.file) THEN refreshTimer' = 1 ELSE refreshTimer' = refreshTimer
        /\ WatcherChange(ev) => refreshTimer' = refreshTimer ]_vars


\* ---- the debounced rebuild (SpecDev)

\* C14: at most one rebuild timer is armed at any time; after each relevant
\* add or unlink event exactly one is armed, whether or not one was armed
\* before, so a burst of such events with no firing in between is followed by
\* exactly one Discovery run, which happens after the last event of the burst
\* and sees the tree as it is then.
C14_DebouncedRebuild ==
  [][ /\ refreshTimer' <= 1
      /\ \A ev \in pending :
           (onMaybeStructureChange(ev) /\ RelevantPath(ev.file)) => refreshTimer' = 1
      \* only the firing of a timer lowers the count
      /\ refreshTimer' < refreshTimer =>
           /\ refreshTimer' = 0
           /\ pagesRef' = resolvePages(fs, ctx.entryFiles, ctx.defaultTemplate) ]_vars

\* two relevant events (a/b/main.ts added, the root index.html removed) have
\* been handled, no rebuild has run since the first, and one timer is armed
C14_Witness ==
  /\ fs.files[PageFile(<<DirA, DirB>>, MainTs)] # NoFile
  /\ fs.files[PageFile(<<>>, IndexHtml)] = NoFile
  /\ ~HasPage(pagesRef, <<"a", "/", "b">>)
  /\ pending = {}
  /\ resp.kind = "watch" /\ resp.event.kind \in {"add", "unlink"}
  /\ refreshTimer = 1


\* ---- the Page Index after a rebuild (SpecDev)

PagesAsSet(pages) == {pages[i] : i \in 1..Len(pages)}

\* the template a page in directory d gets on the tree files
ExpectedTemplate(files, d) ==
  IF files[PageFile(d, IndexHtml)] # NoFile THEN AbsPath(PageFile(d, IndexHtml))
  ELSE IF ctx.defaultTemplate # <<>> /\ files[DefaultFile] # NoFile THEN ctx.defaultTemplate
  ELSE <<>>

\* what one complete Discovery pass over the tree files finds, for the single
\* target entry file main.ts
ExpectedPages(files) ==
  {Page(ExpectedName(d), EntryUrl(d, MainTs), ExpectedTemplate(files, d)) :
     d \in {dd \in ScannedDirs : files[PageFile(dd, MainTs)] # NoFile}}

\* the trees the dev server's directory can be in
DevTrees ==
  {[fs.files EXCEPT ![PageFile(<<>>, IndexHtml)] = t, ![PageFile(<<DirA, DirB>>, MainTs)] = e] :
     t \in {NoFile, TplA, TplB}, e \in {NoFile, EntryText}}

\* C15: after every rebuild the Page Index is exactly what one Discovery pass
\* over the current tree finds, and at no time does it mix pages of two
\* passes: it always equals the result of a pass over one tree.
C15_IndexReplacedWholesale ==
  [][ \* a rebuild is the step in which a timer fires
      /\ refreshTimer' < refreshTimer =>
           /\ PagesAsSet(pagesRef') = ExpectedPages(fs.files)
           /\ Len(pagesRef') = Cardinality(ExpectedPages(fs.files))
      /\ pagesRef' # pagesRef =>
           \E tree \in DevTrees :
             /\ PagesAsSet(pagesRef') = ExpectedPages(tree)
             /\ Len(pagesRef') = Cardinality(ExpectedPages(tree)) ]_vars

\* a rebuild has replaced the index: page a/b is new, and page index has lost
\* its colocated template
C15_Witness ==
  /\ refreshTimer = 0
  /\ HasPage(pagesRef, <<"a", "/", "b">>)
  /\ HasPage(pagesRef, <<"index">>)
  /\ PageOf(pagesRef, <<"index">>).template = ctx.defaultTemplate


\* ---- the production snapshot (SpecDev)

\* C16: no watcher event, timer firing or rebuild changes the Page Index the
\* production plugin holds, nor the entry-point map made from it.
C16_ProdIndexFrozen ==
  [][ /\ prodPages' = prodPages
      /\ ProdInput(prodPages') = ProdInput(prodPages) ]_vars

\* a rebuild has given the dev plugin another index than the snapshot
C16_Witness ==
  /\ refreshTimer = 0
  /\ PageNames(pagesRef) # PageNames(prodPages)
  /\ PageNames(prodPages) = {<<"index">>}


\* ---- two entries with one page name (SpecBuild)

\* the target entry file of directory d that the scan meets last
LastTarget(d) ==
  LET listing == Listing(fs.files, d)
      hits == {i \in 1..Len(listing) : listing[i].kind = "file" /\ listing[i].name \in TargetsIn(d)}
  IN listing[CHOOSE i \in hits : \A j \in hits : j <= i].name

\* C17: when a directory holds two target entry files, the Page Index has
\* exactly one page under the directory's name, and its entry is the file the
\* scan met later.
C17_LaterEntryWins ==
  \A d \in ScannedDirs :
    Cardinality(TargetsIn(d)) >= 2 =>
      /\ Cardinality({i \in 1..Len(pagesRef) : pagesRef[i].name = ExpectedName(d)}) = 1
      /\ PageOf(pagesRef, ExpectedName(d)).entry = EntryUrl(d, LastTarget(d))

C17_Witness ==
  /\ TargetsIn(<<>>) = {MainTs, MainTsx}
  /\ PageOf(pagesRef, <<"index">>).entry = <<"/", "src", "/", "pages", "/", "main", ".", "tsx">>
  /\ resp.kind = "config"


\* ---- the query string of the canonical URL (SpecServe)

HasQuery(u) == \E i \in 1..Len(u) : u[i] = "?"

\* the whole text after the first "?"
AfterFirstQuery(u) == SubSeq(u, Len(BeforeQuery(u)) + 2, Len(u))

NormalizedPath(p) ==
  IF p = <<"/">> \/ p = <<>> THEN <<"/", "index", ".", "html">>
  ELSE IF HtmlSuffixed(p) THEN p
  ELSE WithoutTrailingSlashes(p) \o <<".", "html">>

\* C18: the canonical URL is the normalized path followed, when the request
\* has a query string, by "?" and the whole text after the request's first
\* "?"; a request without a query string gets no "?".
C18_QueryReattached ==
  Resolved =>
    resp.meta.url =
      NormalizedPath(BeforeQuery(resp.req.url))
        \o (IF HasQuery(resp.req.url) THEN <<"?">> \o AfterFirstQuery(resp.req.url) ELSE <<>>)


\* ---- a tag that is already there (SpecInject)

\* the text holds a module-script tag for the source: as the plugin writes
\* it, in upper case with single quotes, or with src before type
HoldsModuleScript(html, scriptSrc) ==
  \/ Includes(html, ScriptTag(scriptSrc))
  \/ Includes(html, TagUpper(scriptSrc))
  \/ Includes(html, TagSrcFirst(scriptSrc))

\* C19: if the text already holds a module-script tag whose src is the script
\* source, in any letter case and with type and src in either order, the
\* injection returns the text unchanged.
C19_PresentTagUnchanged ==
  \A k \in 1..Len(out) :
    HoldsModuleScript(InjectInput(k), arg.src) => out[k] = InjectInput(k)


\* ---- the shape of a rendered document (SpecInject)

ModuleScriptCount(html, scriptSrc) ==
  CountOf(html, ScriptTag(scriptSrc)) + CountOf(html, TagUpper(scriptSrc))
    + CountOf(html, TagSrcFirst(scriptSrc))

\* the tag, then white space only, then the first closing body tag
TagBeforeFirstBodyClose(html, scriptSrc) ==
  /\ HasBodyClose(html)
  /\ LET close == FirstBodyClose(html)
         len == Len(ScriptTag(scriptSrc))
     IN \E j \in 1..close :
          /\ j + len <= close
          /\ Occurs(html, ScriptTag(scriptSrc), j)
          /\ \A k \in (j + len)..(close - 1) : IsWs(html[k])

\* C20: a document rendered from a template with a closing body tag, in any
\* letter case, holds exactly one module-script tag with the page's script
\* src, and the tag stands immediately before the first closing body tag.
C20_OneTagBeforeBodyClose ==
  (Len(out) >= 1 /\ HasBodyClose(arg.html)) =>
    /\ ModuleScriptCount(out[1], arg.src) = 1
    /\ TagBeforeFirstBodyClose(out[1], arg.src)

\* the entry path as a POSIX path with its leading "/" removed
EntryWithoutLeadingSlash ==
  LET e == toPosix(arg.entry) IN IF e # <<>> /\ e[1] = "/" THEN Tail(e) ELSE e

\* the number of "/" a path ends with
RECURSIVE TrailingSlashes(_)
TrailingSlashes(p) ==
  IF p # <<>> /\ p[Len(p)] = "/" THEN 1 + TrailingSlashes(SubSeq(p, 1, Len(p) - 1)) ELSE 0

\* the base normalized to end with exactly one "/"; the empty base is "/"
EndingWithOneSlash(base) == StripTrailingSlashes(base) \o <<"/">>

\* C21 as stated: in development the script src is the base normalized to end
\* with exactly one "/", followed by the entry path without its leading "/".
C21_SrcJoinsWithOneSlash ==
  (out # <<>> /\ arg.isDev) =>
    out[1] = EndingWithOneSlash(arg.base) \o EntryWithoutLeadingSlash

\* C21 amended: in development the script src is the base (the empty base taken
\* as "/"), given a "/" only when it ends with none, followed by the entry path
\* without its leading "/": a base that ends with one "/" or none joins with
\* exactly one, a base that ends with several keeps them all.
C21_SrcJoinsWithBaseSlashes ==
  (out # <<>> /\ arg.isDev) =>
    LET given == IF arg.base = <<>> THEN <<"/">> ELSE arg.base
        n == Len(out[1]) - Len(EntryWithoutLeadingSlash)
        prefix == SubSeq(out[1], 1, n)
    IN /\ n >= 1
       /\ SubSeq(out[1], n + 1, Len(out[1])) = EntryWithoutLeadingSlash
       /\ StripTrailingSlashes(prefix) = StripTrailingSlashes(given)
       /\ TrailingSlashes(prefix) = (IF TrailingSlashes(given) = 0 THEN 1 ELSE TrailingSlashes(given))
       /\ TrailingSlashes(given) <= 1 => out[1] = EndingWithOneSlash(arg.base) \o EntryWithoutLeadingSlash

\* a base without a trailing "/" was joined to an entry
C21_Witness ==
  /\ out # <<>> /\ arg.isDev
  /\ arg.base = <<"/", "sub">> /\ arg.entry = SrcRoot
  /\ out[1] = SrcBased

\* the latest step handled an add or unlink event for a relevant path
HandledRelevantEvent ==
  /\ resp.kind = "watch"
  /\ resp.event.kind \in {"add", "unlink"}
  /\ RelevantPath(resp.event.file)

\* no timeout is armed and the index is what a discovery pass gives on the
\* tree as it is: the state the timer callback leaves
IndexRebuilt ==
  refreshTimer = 0 /\ pagesRef = resolvePages(fs, ctx.entryFiles, ctx.defaultTemplate)

\* C22: once a relevant add or unlink event has been handled a timeout is
\* armed, and it eventually fires and replaces the development Page Index by
\* the result of a fresh discovery pass.
C22_RebuildEventually ==
  [](HandledRelevantEvent => (refreshTimer > 0 /\ <>IndexRebuilt))

\* the script src a development render of the page gives under the server's base
DevScriptSrc(page) == buildScriptSrc(toPosix(page.entry), TRUE, ctx.base)

\* C23: a request whose page is found is rendered with the server's base and
\* handed, once, to the HTML transform with the canonical URL; the 200 response
\* comes after it and carries the transform's result for exactly that call; a
\* 404 or a passed-through request never reaches the transform.
C23_RenderTransformRespond ==
  [][ /\ resp'.kind = "render" =>
           /\ HasPage(pagesRef, resp'.meta.name)
           /\ resp'.meta = parsePageMeta(resp'.req.url)
           /\ Includes(resp'.html, ScriptTag(DevScriptSrc(PageOf(pagesRef, resp'.meta.name))))
           /\ inflight' = inflight (+) SetToBag({[url |-> resp'.meta.url, htmlRaw |-> resp'.html]})
      /\ resp'.kind = "200" =>
           \E r \in BagToSet(inflight) :
             /\ inflight' = inflight (-) SetToBag({r})
             /\ resp'.url = r.url
             /\ resp'.body = transformIndexHtml(r.url, r.htmlRaw)
      /\ resp'.kind \notin {"render", "200"} => inflight' = inflight
    ]_vars

\* the 200 response to /a/b.html?x=1 under base /: the transformed render
C23_Witness ==
  /\ resp.kind = "200"
  /\ resp.url = <<"/", "a", "/", "b", ".", "html", "?", "x", "=", "1">>
  /\ resp.body = transformIndexHtml(resp.url, injectScript(TplD, SrcNested))
  /\ inflight = EmptyBag

\* ---- one discovery pass (SpecScan)

NoiseDirNames == {NodeModules, DistDir, <<".", "git">>}

\* the directories on the way from the pages root down to d, d included
DirsDownTo(d) == {SubSeq(d, 1, k) : k \in 0..Len(d)}

\* d is reached from the pages root without passing through a noise
\* directory, a hidden directory or a symbolic link (d itself included)
ReachedUnskipped(d) ==
  \A p \in DirsDownTo(d) \ {<<>>} :
    LET n == p[Len(p)]
    IN n \notin NoiseDirNames /\ n[1] # "." /\ ~IsSymlink(p)

\* every directory on the way, d included, can be read
ReadableDownTo(d) == DirsDownTo(d) \cap fs.unreadable = {}

\* C24: after a discovery pass the index has a page for exactly the directories
\* that hold a regular file named as a target entry filename and that the
\* scan reaches (reading each directory on the way) without passing through
\* node_modules, dist, .git, a hidden directory or a symbolic link.
C24_PagesAreReachableEntries ==
  resp.kind = "scan" =>
    /\ PageNames(pagesRef)
         = {ExpectedName(d) :
              d \in {dd \in AllDirs : ReachedUnskipped(dd) /\ ReadableDownTo(dd) /\ TargetsIn(dd) # {}}}
    /\ \A d \in AllDirs : ~ReachedUnskipped(d) => ~HasPage(pagesRef, ExpectedName(d))

\* entries exist in the root, in a/b, in dist, node_modules, the hidden
\* directory and behind the link; root and a/b alone became pages
C24_Witness ==
  /\ resp.kind = "scan"
  /\ fs.unreadable = {}
  /\ \A d \in {<<>>, <<DirA, DirB>>, <<DistDir>>, <<NodeModules>>, <<HiddenDir>>, <<LinkDir>>} :
       TargetsIn(d) # {}
  /\ PageNames(pagesRef) = {<<"index">>, <<"a", "/", "b">>}

\* C25: a directory that cannot be read is skipped and the scan goes on: every
\* page of a directory read on a readable way is in the index, an unreadable
\* directory gives no page of its own nor of a directory below it, and an
\* unreadable pages root gives the empty index.
C25_UnreadableSkipped ==
  resp.kind = "scan" =>
    /\ \A d \in AllDirs :
         (ReachedUnskipped(d) /\ TargetsIn(d) # {}) =>
           (HasPage(pagesRef, ExpectedName(d)) <=> ReadableDownTo(d))
    /\ <<>> \in fs.unreadable => pagesRef = <<>>

\* a cannot be read: its own entry and the one in a/b are missing, the root's
\* page is there
C25_Witness ==
  /\ resp.kind = "scan"
  /\ fs.unreadable = {<<DirA>>}
  /\ TargetsIn(<<DirA>>) # {} /\ TargetsIn(<<DirA, DirB>>) # {} /\ TargetsIn(<<>>) # {}
  /\ PageNames(pagesRef) = {<<"index">>}

\* ---- renders and the assembled-HTML cache (SpecRender)

\* the page the latest render step served
RenderedPage == PageOf(pagesRef, resp'.meta.name)

\* the key of a page's assembled HTML under the server's base: base and entry
DevCacheKey(page) == EndingWithOneSlash(ctx.base) \o <<"|">> \o toPosix(page.entry)

\* the step is the change handler's, for a path ending in .html
HtmlChangeStep ==
  /\ resp'.kind = "watch"
  /\ resp'.event.kind = "change"
  /\ EndsWith(resp'.event.file, <<".", "html">>)

\* C26: a page rendered before under the server's base is served the cached
\* HTML again, with no read of the template file and no use of the template
\* cache; an entry stays as it is until a .html change event; a render under
\* another base does not hit the entry and carries its own base in the src.
C26_CachedRenderReused ==
  [][ /\ resp'.kind = "render" =>
           IF DevCacheKey(RenderedPage) \in DOMAIN entryContentCache
             THEN /\ resp'.html = entryContentCache[DevCacheKey(RenderedPage)]
                  /\ resp'.hit /\ ~resp'.read
                  /\ templateContentCache' = templateContentCache
                  /\ entryContentCache' = entryContentCache
             ELSE /\ ~resp'.hit
                  /\ Includes(resp'.html, ScriptTag(DevScriptSrc(RenderedPage)))
                  /\ MapGet(entryContentCache', DevCacheKey(RenderedPage)) = resp'.html
      /\ \A k \in DOMAIN entryContentCache :
           (k \notin DOMAIN entryContentCache' \/ entryContentCache'[k] # entryContentCache[k])
             => HtmlChangeStep
    ]_vars

\* the index page is cached under both bases and the latest render hit the cache
C26_Witness ==
  /\ resp.kind = "render" /\ resp.hit
  /\ resp.meta.name = <<"index">>
  /\ ctx.base = <<"/", "sub", "/">>
  /\ Cardinality({k \in DOMAIN entryContentCache : Includes(k, SrcRoot)}) = 2

\* C27: from empty caches a development render under base "/" gives the text
\* a production render of the same page gives.
C27_DevRootBaseEqualsProd ==
  [][ (resp'.kind = "render" /\ CachesEmpty /\ ctx.base = <<"/">>) =>
        resp'.html = loadHtmlContent(fs, EmptyMap, EmptyMap, RenderedPage, FALSE, <<"/">>).html
    ]_vars

\* with nothing cached before, a/b was rendered under "/" from the default
\* template, which was read from disk
C27_Witness ==
  /\ resp.kind = "render" /\ ~resp.hit /\ resp.read
  /\ ctx.base = <<"/">>
  /\ resp.meta.name = <<"a", "/", "b">>
  /\ resp.html = injectScript(TplD, SrcNested)
  /\ DOMAIN entryContentCache = {DevCacheKey(PageOf(pagesRef, resp.meta.name))}

\* ---- renders after a rebuild (SpecDev)

\* C28: a render never returns HTML assembled from another template than the
\* one the index gives the page now: when the page's template is the default
\* template the HTML is built from the default template's text, and when it is
\* the page's own index.html the HTML is not built from the default template.
C28_RenderFollowsTemplatePath ==
  [][ (resp'.kind = "render" /\ resp'.hit) =>
        LET fromDefault == injectScript(TplD, DevScriptSrc(RenderedPage))
        IN IF RenderedPage.template = ctx.defaultTemplate
             THEN resp'.html = fromDefault
             ELSE resp'.html # fromDefault
    ]_vars

\* ---- every page can be requested (SpecServe)

\* the two URLs of the page named n
PageUrls(n) == {<<"/">> \o n, <<"/">> \o n \o <<".", "html">>}

\* C29: a GET request that accepts text/html for /n or /n.html, n a page of the
\* index, is rendered as that page: it is neither passed through nor answered
\* with the 404 page.
C29_EveryPageReachable ==
  [][ \A n \in PageNames(pagesRef) :
        ( /\ resp'.kind \in {"next", "404", "throw", "render"}
          /\ resp'.req.method = "GET"
          /\ Includes(acceptString(resp'.req.accept), <<"text", "/", "html">>)
          /\ resp'.req.url \in PageUrls(n) )
        => /\ resp'.kind = "render"
           /\ resp'.meta.name = n
           /\ Includes(resp'.html, ScriptTag(DevScriptSrc(PageOf(pagesRef, n))))
    ]_vars

\* ---- requests resumed after the transform (SpecDev)

\* C30: the step that resumes a request after the HTML transform leaves both
\* caches as they are; a cache changes only in the synchronous part of a
\* request, which renders, or in the change handler, so caches a .html change
\* event emptied stay empty until a render that starts after the event.
C30_ResumedRequestLeavesCaches ==
  [][ /\ resp'.kind = "200" =>
           /\ templateContentCache' = templateContentCache
           /\ entryContentCache' = entryContentCache
      /\ (templateContentCache' # templateContentCache \/ entryContentCache' # entryContentCache)
           => (resp'.kind = "render" \/ HtmlChangeStep)
      /\ (CachesEmpty /\ ~CachesEmpty') => (resp'.kind = "render" /\ ~resp'.hit)
    ]_vars

\* the request for / was rendered from TplA, the template was rewritten and
\* the change event emptied the caches while it was suspended; it then got
\* its 200 and the caches are still empty
C30_Witness ==
  /\ resp.kind = "200"
  /\ resp.body = transformIndexHtml(resp.url, injectScript(TplA, SrcRoot))
  /\ fs.files[PageFile(<<>>, IndexHtml)] = TplB
  /\ pending = {}
  /\ CachesEmpty


====
